---------------------------- MODULE Spec2Model ----------------------------
(***************************************************************************)
(* niri-app-hotkey: the window locator (pattern matcher, rule resolver,    *)
(* include/exclude combination) and the action orchestrator (launch, show, *)
(* hide, activate, toggle) of src/src/action.rs, driven from main          *)
(* (src/src/main.rs) over the typed configuration of src/src/config.rs.    *)
(***************************************************************************)
EXTENDS Integers, Sequences, FiniteSets, TLC

(***************************************************************************)
(* Option<T>: None is the empty sequence, Some(x) the one-element one.     *)
(***************************************************************************)
None == <<>>

Some(x) == <<x>>

IsSome(o) == o # <<>>

Unwrap(o) == o[1]

SeqToSet(s) == {s[i] : i \in 1..Len(s)}

(***************************************************************************)
(* Bounds of the model.                                                    *)
(***************************************************************************)
\* Longest window list a snapshot of the locator's specification holds.
MaxWindows == 3

\* Largest process id a window carries.
MaxPid == 2

(***************************************************************************)
(* Strings are sequences of characters; a Regex is modelled by a literal   *)
(* pattern, and Regex::is_match by its unanchored search.                  *)
(***************************************************************************)
StrT == <<"t">>

StrTE == <<"t", "e">>

is_match(re, text) ==
    \E i \in 1..(Len(text) + 1) :
        /\ i + Len(re) - 1 <= Len(text)
        /\ SubSeq(text, i, i + Len(re) - 1) = re

(***************************************************************************)
(* Pattern Matcher: is_window_match_rule.                                  *)
(***************************************************************************)
is_window_match_rule(window, rule) ==
    /\ IsSome(rule.app_id) =>
          /\ IsSome(window.app_id)
          /\ is_match(Unwrap(rule.app_id), Unwrap(window.app_id))
    /\ IsSome(rule.title) =>
          /\ IsSome(window.title)
          /\ is_match(Unwrap(rule.title), Unwrap(window.title))

(***************************************************************************)
(* The comparator handed to sort_by: pids compare when both are present,   *)
(* every other pair is Equal.  IsLess is "compare(a, b) == Less".          *)
(***************************************************************************)
IsLess(a, b) ==
    /\ IsSome(a.pid)
    /\ IsSome(b.pid)
    /\ Unwrap(a.pid) < Unwrap(b.pid)

(***************************************************************************)
(* slice::sort_by on the short lists of a snapshot is the stable insertion *)
(* sort: each element in turn moves left past the elements it is less than.*)
(***************************************************************************)
RECURSIVE InsertTail(_, _)
InsertTail(sorted, x) ==
    IF sorted = <<>> THEN <<x>>
    ELSE IF IsLess(x, sorted[Len(sorted)])
         THEN Append(InsertTail(SubSeq(sorted, 1, Len(sorted) - 1), x),
                     sorted[Len(sorted)])
         ELSE Append(sorted, x)

RECURSIVE SortByPid(_)
SortByPid(ws) ==
    IF ws = <<>> THEN <<>>
    ELSE InsertTail(SortByPid(SubSeq(ws, 1, Len(ws) - 1)), ws[Len(ws)])

FilterMatching(windows, rule) ==
    SelectSeq(windows, LAMBDA w : is_window_match_rule(w, rule))

WindowIds(ws) == [i \in 1..Len(ws) |-> ws[i].id]

(***************************************************************************)
(* Rule Resolver: match_windows_with_rules.  One mapping per rule: the     *)
(* rule's index and the ids of the windows it matches, in sorted order.    *)
(***************************************************************************)
match_windows_with_rules(windows, rules) ==
    [r \in 1..Len(rules) |->
        [index |-> rules[r].index,
         ids   |-> WindowIds(SortByPid(FilterMatching(windows, rules[r])))]]

\* The loop as it would be with the position counted from one.
SelectedOfMapping_OneBased(m) ==
    {m.ids[i] : i \in {j \in 1..Len(m.ids) :
                          \/ m.index = None
                          \/ m.index = Some(j)}}

(***************************************************************************)
(* The enumerate() loop over one mapping: position index (0-based) against *)
(* the rule's index; a rule without index takes every id.                  *)
(***************************************************************************)
SelectedOfMapping(m) ==
    {m.ids[i] : i \in {j \in 1..Len(m.ids) :
                          \/ m.index = None
                          \/ m.index = Some(j - 1)}}

\* The set as it would be if each rule's selection replaced the one before.
RECURSIVE CollectIds_LastRuleWins(_)
CollectIds_LastRuleWins(mappings) ==
    IF mappings = <<>> THEN {}
    ELSE IF SelectedOfMapping(mappings[Len(mappings)]) # {}
         THEN SelectedOfMapping(mappings[Len(mappings)])
         ELSE CollectIds_LastRuleWins(SubSeq(mappings, 1, Len(mappings) - 1))

\* The HashSet the loop over all mappings fills.
RECURSIVE CollectIds(_)
CollectIds(mappings) ==
    IF mappings = <<>> THEN {}
    ELSE CollectIds(SubSeq(mappings, 1, Len(mappings) - 1))
            \cup SelectedOfMapping(mappings[Len(mappings)])

excluded_window_ids(windows, excludes) ==
    CollectIds(match_windows_with_rules(windows, excludes))

include_window_ids(windows, matches) ==
    CollectIds(match_windows_with_rules(windows, matches))

matched_windows(windows, matches, excludes) ==
    SelectSeq(windows,
              LAMBDA w : /\ w.id \notin excluded_window_ids(windows, excludes)
                         /\ w.id \in include_window_ids(windows, matches))

\* workspaces.iter().find(|workspace| workspace.id == id)
FindWorkspaceById(workspaces, id) ==
    LET hits == SelectSeq(workspaces, LAMBDA s : s.id = id)
    IN  IF hits = <<>> THEN None ELSE Some(hits[1])

(***************************************************************************)
(* Window Locator: get_matched_window_and_workspace.  kind is "Ambiguous"  *)
(* (Err), "NoMatch" (Ok(None)), "NoWorkspace" / "WorkspaceNotFound" (Err)  *)
(* or "Matched" (Ok(Some((window, workspace)))).                           *)
(***************************************************************************)
LocateResult(kind, window, workspace) ==
    [kind |-> kind, window |-> window, workspace |-> workspace]

\* The locator as it would be without the check for several candidates.
locate_FirstOfMany(windows, workspaces, matches, excludes) ==
    LET mw == matched_windows(windows, matches, excludes)
    IN  IF mw = <<>> THEN LocateResult("NoMatch", None, None)
        ELSE IF mw[1].workspace_id = None
             THEN LocateResult("NoWorkspace", Some(mw[1]), None)
        ELSE LET found == FindWorkspaceById(workspaces, Unwrap(mw[1].workspace_id))
             IN  IF found = None
                 THEN LocateResult("WorkspaceNotFound", Some(mw[1]), None)
                 ELSE LocateResult("Matched", Some(mw[1]), found)

\* The locator as it would be if a candidate without a workspace of the
\* snapshot counted as no match.
locate_MissingWorkspaceIsNoMatch(windows, workspaces, matches, excludes) ==
    LET mw == matched_windows(windows, matches, excludes)
    IN  IF Len(mw) > 1 THEN LocateResult("Ambiguous", None, None)
        ELSE IF mw = <<>> THEN LocateResult("NoMatch", None, None)
        ELSE IF mw[1].workspace_id = None
             THEN LocateResult("NoMatch", None, None)
        ELSE LET found == FindWorkspaceById(workspaces, Unwrap(mw[1].workspace_id))
             IN  IF found = None
                 THEN LocateResult("NoMatch", None, None)
                 ELSE LocateResult("Matched", Some(mw[1]), found)

get_matched_window_and_workspace(windows, workspaces, matches, excludes) ==
    LET mw == matched_windows(windows, matches, excludes)
    IN  IF Len(mw) > 1 THEN LocateResult("Ambiguous", None, None)
        ELSE IF mw = <<>> THEN LocateResult("NoMatch", None, None)
        ELSE IF mw[1].workspace_id = None
             THEN LocateResult("NoWorkspace", Some(mw[1]), None)
        ELSE LET found == FindWorkspaceById(workspaces, Unwrap(mw[1].workspace_id))
             IN  IF found = None
                 THEN LocateResult("WorkspaceNotFound", Some(mw[1]), None)
                 ELSE LocateResult("Matched", Some(mw[1]), found)


(***************************************************************************)
(* State Queries.                                                          *)
(***************************************************************************)
\* windows.iter().find(|window| window.is_focused)
get_focused_window(windows) ==
    LET hits == SelectSeq(windows, LAMBDA w : w.is_focused)
    IN  IF hits = <<>> THEN None ELSE Some(hits[1])

\* workspaces.iter().find(|workspace| workspace.is_focused), None for the Err
get_focused_workspace(workspaces) ==
    LET hits == SelectSeq(workspaces, LAMBDA s : s.is_focused)
    IN  IF hits = <<>> THEN None ELSE Some(hits[1])

\* workspaces.iter().find(|workspace| workspace.is_hidden), None for the Err
get_hidden_workspace(workspaces) ==
    LET hits == SelectSeq(workspaces, LAMBDA s : s.is_hidden)
    IN  IF hits = <<>> THEN None ELSE Some(hits[1])

(***************************************************************************)
(* Requests.  A mutating request is an Action::MoveWindowToWorkspace or an *)
(* Action::FocusWindow; the two listing requests are Windows and           *)
(* WorkspacesWithHidden.  Fields a request does not have are None / FALSE. *)
(***************************************************************************)
ListRequest(name) ==
    [req |-> name, window_id |-> None, reference |-> None, focus |-> FALSE]

MoveWindowToWorkspace(window_id, workspace_id, focus) ==
    [req |-> "MoveWindowToWorkspace", window_id |-> Some(window_id),
     reference |-> Some(workspace_id), focus |-> focus]

FocusWindow(id) ==
    [req |-> "FocusWindow", window_id |-> Some(id), reference |-> None,
     focus |-> FALSE]

(***************************************************************************)
(* What a command decides on its snapshot: fail with an error, launch the  *)
(* application, or send the listed mutating requests one after the other.  *)
(***************************************************************************)
Fail(error) == [kind |-> "fail", error |-> error, reqs |-> <<>>]

SendAll(reqs) == [kind |-> "send", error |-> "", reqs |-> reqs]

CallLaunch == [kind |-> "launch", error |-> "", reqs |-> <<>>]

\* The error a failed locate, or a locate without match, ends the command with.
LocateError(m) == Fail(m.kind)

\* show as it would be with the move sent whatever the window's workspace.
show_AlwaysMoves(windows, workspaces, application) ==
    LET m == get_matched_window_and_workspace(
                 windows, workspaces, application.matches, application.excludes)
        focused_workspace == get_focused_workspace(workspaces)
        w == Unwrap(m.window)
    IN  IF m.kind # "Matched" THEN LocateError(m)
        ELSE IF focused_workspace = None THEN Fail("NoFocusedWorkspace")
        ELSE SendAll(<<MoveWindowToWorkspace(
                          w.id, Unwrap(focused_workspace).id, TRUE),
                       FocusWindow(w.id)>>)

\* show as it would be with the move sent without focus and returning.
show_MovesWithoutFocus(windows, workspaces, application) ==
    LET m == get_matched_window_and_workspace(
                 windows, workspaces, application.matches, application.excludes)
        focused_workspace == get_focused_workspace(workspaces)
        w == Unwrap(m.window)
    IN  IF m.kind # "Matched" THEN LocateError(m)
        ELSE IF focused_workspace = None THEN Fail("NoFocusedWorkspace")
        ELSE IF Unwrap(focused_workspace).id # Unwrap(m.workspace).id
             THEN SendAll(<<MoveWindowToWorkspace(
                               w.id, Unwrap(focused_workspace).id, FALSE)>>)
             ELSE SendAll(<<FocusWindow(w.id)>>)

\* pub fn show
show(windows, workspaces, application) ==
    LET m == get_matched_window_and_workspace(
                 windows, workspaces, application.matches, application.excludes)
        focused_workspace == get_focused_workspace(workspaces)
        w == Unwrap(m.window)
    IN  IF m.kind # "Matched" THEN LocateError(m)
        ELSE IF focused_workspace = None THEN Fail("NoFocusedWorkspace")
        ELSE IF Unwrap(focused_workspace).id # Unwrap(m.workspace).id
             THEN SendAll(<<MoveWindowToWorkspace(
                               w.id, Unwrap(focused_workspace).id, TRUE),
                            FocusWindow(w.id)>>)
             ELSE SendAll(<<FocusWindow(w.id)>>)

\* hide as it would be without the check that the matched window is focused.
hide_NoFocusCheck(windows, workspaces, application) ==
    LET m == get_matched_window_and_workspace(
                 windows, workspaces, application.matches, application.excludes)
        hidden_workspace == get_hidden_workspace(workspaces)
        w == Unwrap(m.window)
    IN  IF m.kind # "Matched" THEN LocateError(m)
        ELSE IF hidden_workspace = None THEN Fail("NoHiddenWorkspace")
        ELSE IF Unwrap(hidden_workspace).id = Unwrap(m.workspace).id
             THEN Fail("AlreadyHidden")
        ELSE SendAll(<<MoveWindowToWorkspace(
                          w.id, Unwrap(hidden_workspace).id, FALSE)>>)

\* hide as it would be without the check that the window is already on the
\* hidden workspace.
hide_NoAlreadyHiddenCheck(windows, workspaces, application) ==
    LET m == get_matched_window_and_workspace(
                 windows, workspaces, application.matches, application.excludes)
        focused_window == get_focused_window(windows)
        hidden_workspace == get_hidden_workspace(workspaces)
        w == Unwrap(m.window)
    IN  IF m.kind # "Matched" THEN LocateError(m)
        ELSE IF focused_window = None THEN Fail("NoFocusedWindow")
        ELSE IF Unwrap(focused_window).id # w.id THEN Fail("NotFocused")
        ELSE IF hidden_workspace = None THEN Fail("NoHiddenWorkspace")
        ELSE SendAll(<<MoveWindowToWorkspace(
                          w.id, Unwrap(hidden_workspace).id, FALSE)>>)

\* hide as it would be with the move taking the focus along.
hide_MovesWithFocus(windows, workspaces, application) ==
    LET m == get_matched_window_and_workspace(
                 windows, workspaces, application.matches, application.excludes)
        focused_window == get_focused_window(windows)
        hidden_workspace == get_hidden_workspace(workspaces)
        w == Unwrap(m.window)
    IN  IF m.kind # "Matched" THEN LocateError(m)
        ELSE IF focused_window = None THEN Fail("NoFocusedWindow")
        ELSE IF Unwrap(focused_window).id # w.id THEN Fail("NotFocused")
        ELSE IF hidden_workspace = None THEN Fail("NoHiddenWorkspace")
        ELSE IF Unwrap(hidden_workspace).id = Unwrap(m.workspace).id
             THEN Fail("AlreadyHidden")
        ELSE SendAll(<<MoveWindowToWorkspace(
                          w.id, Unwrap(hidden_workspace).id, TRUE)>>)

\* pub fn hide
hide(windows, workspaces, application) ==
    LET m == get_matched_window_and_workspace(
                 windows, workspaces, application.matches, application.excludes)
        focused_window == get_focused_window(windows)
        hidden_workspace == get_hidden_workspace(workspaces)
        w == Unwrap(m.window)
    IN  IF m.kind # "Matched" THEN LocateError(m)
        ELSE IF focused_window = None THEN Fail("NoFocusedWindow")
        ELSE IF Unwrap(focused_window).id # w.id THEN Fail("NotFocused")
        ELSE IF hidden_workspace = None THEN Fail("NoHiddenWorkspace")
        ELSE IF Unwrap(hidden_workspace).id = Unwrap(m.workspace).id
             THEN Fail("AlreadyHidden")
        ELSE SendAll(<<MoveWindowToWorkspace(
                          w.id, Unwrap(hidden_workspace).id, FALSE)>>)

\* activate as it would be if it fetched the window from another workspace.
activate_MovesToFocused(windows, workspaces, application) ==
    LET m == get_matched_window_and_workspace(
                 windows, workspaces, application.matches, application.excludes)
        focused_workspace == get_focused_workspace(workspaces)
        w == Unwrap(m.window)
    IN  IF m.kind # "Matched" THEN LocateError(m)
        ELSE IF focused_workspace = None THEN Fail("NoFocusedWorkspace")
        ELSE IF Unwrap(focused_workspace).id # Unwrap(m.workspace).id
             THEN SendAll(<<MoveWindowToWorkspace(
                               w.id, Unwrap(focused_workspace).id, TRUE)>>)
        ELSE SendAll(<<FocusWindow(w.id)>>)

\* pub fn activate
activate(windows, workspaces, application) ==
    LET m == get_matched_window_and_workspace(
                 windows, workspaces, application.matches, application.excludes)
        focused_workspace == get_focused_workspace(workspaces)
        w == Unwrap(m.window)
    IN  IF m.kind # "Matched" THEN LocateError(m)
        ELSE IF focused_workspace = None THEN Fail("NoFocusedWorkspace")
        ELSE IF Unwrap(focused_workspace).id # Unwrap(m.workspace).id
             THEN Fail("NotInFocusedWorkspace")
        ELSE SendAll(<<FocusWindow(w.id)>>)

\* toggle as it would be without the return after the move to the hidden
\* workspace: it goes on to bring the window forward.
toggle_NoReturnAfterHide(windows, workspaces, application) ==
    LET m == get_matched_window_and_workspace(
                 windows, workspaces, application.matches, application.excludes)
        focused_window == get_focused_window(windows)
        hidden_workspace == get_hidden_workspace(workspaces)
        focused_workspace == get_focused_workspace(workspaces)
        w == Unwrap(m.window)
        hiding == focused_window # None /\ Unwrap(focused_window).id = w.id
        first == IF hiding
                 THEN <<MoveWindowToWorkspace(
                            w.id, Unwrap(hidden_workspace).id, FALSE)>>
                 ELSE <<>>
    IN  IF m.kind = "NoMatch" THEN CallLaunch
        ELSE IF m.kind # "Matched" THEN LocateError(m)
        ELSE IF hiding /\ hidden_workspace = None THEN Fail("NoHiddenWorkspace")
        ELSE IF focused_workspace = None
             THEN IF hiding THEN SendAll(first) ELSE Fail("NoFocusedWorkspace")
        ELSE IF Unwrap(focused_workspace).id # Unwrap(m.workspace).id
             THEN SendAll(first \o <<MoveWindowToWorkspace(
                                         w.id, Unwrap(focused_workspace).id, TRUE),
                                     FocusWindow(w.id)>>)
             ELSE SendAll(first \o <<FocusWindow(w.id)>>)

\* toggle as it would be if no match were an error, as it is for show.
toggle_NoLaunch(windows, workspaces, application) ==
    LET m == get_matched_window_and_workspace(
                 windows, workspaces, application.matches, application.excludes)
        focused_window == get_focused_window(windows)
        hidden_workspace == get_hidden_workspace(workspaces)
        focused_workspace == get_focused_workspace(workspaces)
        w == Unwrap(m.window)
    IN  IF m.kind # "Matched" THEN LocateError(m)
        ELSE IF focused_window # None /\ Unwrap(focused_window).id = w.id
             THEN IF hidden_workspace = None THEN Fail("NoHiddenWorkspace")
                  ELSE SendAll(<<MoveWindowToWorkspace(
                                    w.id, Unwrap(hidden_workspace).id, FALSE)>>)
        ELSE IF focused_workspace = None THEN Fail("NoFocusedWorkspace")
        ELSE IF Unwrap(focused_workspace).id # Unwrap(m.workspace).id
             THEN SendAll(<<MoveWindowToWorkspace(
                               w.id, Unwrap(focused_workspace).id, TRUE),
                            FocusWindow(w.id)>>)
             ELSE SendAll(<<FocusWindow(w.id)>>)

\* toggle as it would be with a move without focus as all it does to bring
\* the window forward.
toggle_ForwardMovesWithoutFocus(windows, workspaces, application) ==
    LET m == get_matched_window_and_workspace(
                 windows, workspaces, application.matches, application.excludes)
        focused_window == get_focused_window(windows)
        hidden_workspace == get_hidden_workspace(workspaces)
        focused_workspace == get_focused_workspace(workspaces)
        w == Unwrap(m.window)
    IN  IF m.kind = "NoMatch" THEN CallLaunch
        ELSE IF m.kind # "Matched" THEN LocateError(m)
        ELSE IF focused_window # None /\ Unwrap(focused_window).id = w.id
             THEN IF hidden_workspace = None THEN Fail("NoHiddenWorkspace")
                  ELSE SendAll(<<MoveWindowToWorkspace(
                                    w.id, Unwrap(hidden_workspace).id, FALSE)>>)
        ELSE IF focused_workspace = None THEN Fail("NoFocusedWorkspace")
        ELSE SendAll(<<MoveWindowToWorkspace(
                          w.id, Unwrap(focused_workspace).id, FALSE)>>)

\* toggle as it would be with the move to the hidden workspace taking the
\* focus along.
toggle_HidesWithFocus(windows, workspaces, application) ==
    LET m == get_matched_window_and_workspace(
                 windows, workspaces, application.matches, application.excludes)
        focused_window == get_focused_window(windows)
        hidden_workspace == get_hidden_workspace(workspaces)
        focused_workspace == get_focused_workspace(workspaces)
        w == Unwrap(m.window)
    IN  IF m.kind = "NoMatch" THEN CallLaunch
        ELSE IF m.kind # "Matched" THEN LocateError(m)
        ELSE IF focused_window # None /\ Unwrap(focused_window).id = w.id
             THEN IF hidden_workspace = None THEN Fail("NoHiddenWorkspace")
                  ELSE SendAll(<<MoveWindowToWorkspace(
                                    w.id, Unwrap(hidden_workspace).id, TRUE)>>)
        ELSE IF focused_workspace = None THEN Fail("NoFocusedWorkspace")
        ELSE IF Unwrap(focused_workspace).id # Unwrap(m.workspace).id
             THEN SendAll(<<MoveWindowToWorkspace(
                               w.id, Unwrap(focused_workspace).id, TRUE),
                            FocusWindow(w.id)>>)
             ELSE SendAll(<<FocusWindow(w.id)>>)

\* pub fn toggle
toggle(windows, workspaces, application) ==
    LET m == get_matched_window_and_workspace(
                 windows, workspaces, application.matches, application.excludes)
        focused_window == get_focused_window(windows)
        hidden_workspace == get_hidden_workspace(workspaces)
        focused_workspace == get_focused_workspace(workspaces)
        w == Unwrap(m.window)
    IN  IF m.kind = "NoMatch" THEN CallLaunch
        ELSE IF m.kind # "Matched" THEN LocateError(m)
        ELSE IF focused_window # None /\ Unwrap(focused_window).id = w.id
             THEN IF hidden_workspace = None THEN Fail("NoHiddenWorkspace")
                  ELSE SendAll(<<MoveWindowToWorkspace(
                                    w.id, Unwrap(hidden_workspace).id, FALSE)>>)
        ELSE IF focused_workspace = None THEN Fail("NoFocusedWorkspace")
        ELSE IF Unwrap(focused_workspace).id # Unwrap(m.workspace).id
             THEN SendAll(<<MoveWindowToWorkspace(
                               w.id, Unwrap(focused_workspace).id, TRUE),
                            FocusWindow(w.id)>>)
             ELSE SendAll(<<FocusWindow(w.id)>>)

\* The match of main over the commands that talk to the compositor.
RunAction(cmd, windows, workspaces, application) ==
    CASE cmd = "show"     -> show(windows, workspaces, application)
      [] cmd = "hide"     -> hide(windows, workspaces, application)
      [] cmd = "activate" -> activate(windows, workspaces, application)
      [] cmd = "toggle"   -> toggle(windows, workspaces, application)

(***************************************************************************)
(* Launch: the command and arguments pub fn launch resolves, or its error. *)
(* A path is its sequence of components.                                   *)
(***************************************************************************)
HomeDir == <<"home", "user">>

expand_home(path) ==
    IF path # <<>> /\ path[1] = "~" THEN HomeDir \o Tail(path) ELSE path

launch_command(application) ==
    IF IsSome(application.spawn)
    THEN IF Unwrap(application.spawn) = <<>>
         THEN [error |-> "SpawnEmpty", command |-> <<>>, args |-> <<>>]
         ELSE [error |-> "",
               command |-> expand_home(Unwrap(application.spawn)[1]),
               args |-> Tail(Unwrap(application.spawn))]
    ELSE IF IsSome(application.spawn_sh)
    THEN [error |-> "", command |-> <<"sh">>,
          args |-> <<<<"-c">>, Unwrap(application.spawn_sh)>>]
    ELSE [error |-> "NoSpawn", command |-> <<>>, args |-> <<>>]


(***************************************************************************)
(* The configuration file of the runs: Config.applications.                *)
(***************************************************************************)
MatchRule(app_id, title, index) ==
    [app_id |-> app_id, title |-> title, index |-> index]

Application(name, spawn, spawn_sh, matches, excludes) ==
    [name |-> name, spawn |-> spawn, spawn_sh |-> spawn_sh,
     matches |-> matches, excludes |-> excludes]

Config ==
    << Application("term", Some(<< <<"~", "bin", "term">>, <<"-x">> >>), None,
                   <<MatchRule(Some(StrTE), None, None)>>, <<>>),
       Application("first", Some(<< <<"term">> >>), Some(<<"term -x">>),
                   <<MatchRule(Some(StrT), None, Some(0))>>, <<>>),
       Application("rest", None, None,
                   <<MatchRule(Some(StrT), None, None)>>,
                   <<MatchRule(Some(StrTE), None, None)>>),
       Application("titled", None, Some(<<"term -t">>),
                   <<MatchRule(None, Some(StrT), None)>>, <<>>),
       Application("empty", Some(<<>>), None, <<>>, <<>>) >>

\* Config::find_application: the first application of that name, or None.
find_application(name) ==
    LET hits == SelectSeq(Config, LAMBDA a : a.name = name)
    IN  IF hits = <<>> THEN None ELSE Some(hits[1])

\* The application names a command line gives.
AppNames == {Config[i].name : i \in 1..Len(Config)} \cup {"unknown"}

Commands == {"validate", "launch", "show", "hide", "activate", "toggle"}

IpcCommands == {"show", "hide", "activate", "toggle"}

(***************************************************************************)
(* The compositor.  Its windows and workspaces are the live state the      *)
(* listing requests answer from; a handled action changes them.            *)
(***************************************************************************)
Window(id, app_id, title, pid, workspace_id, is_focused) ==
    [id |-> id, app_id |-> app_id, title |-> title, pid |-> pid,
     workspace_id |-> workspace_id, is_focused |-> is_focused]

Workspace(id, is_focused, is_hidden) ==
    [id |-> id, is_focused |-> is_focused, is_hidden |-> is_hidden]

HasWindow(ws, id) == \E i \in 1..Len(ws) : ws[i].id = id

HasWorkspace(wss, id) == \E i \in 1..Len(wss) : wss[i].id = id

FocusedWorkspaceId(wss) ==
    IF get_focused_workspace(wss) = None THEN None
    ELSE Some(Unwrap(get_focused_workspace(wss)).id)

\* The window the compositor focuses when the focused one leaves the
\* workspace: the first other window left on that workspace, if any.
HeirOf(ws, id, workspace_id) ==
    LET left == SelectSeq(ws, LAMBDA w : w.id # id
                                         /\ w.workspace_id = workspace_id)
    IN  IF left = <<>> THEN None ELSE Some(left[1].id)

\* The windows after the compositor handled the action.
CompositorWindows(ws, wss, r) ==
    LET id == Unwrap(r.window_id)
        old == SelectSeq(ws, LAMBDA w : w.id = id)[1]
    IN  IF ~HasWindow(ws, id) THEN ws
        ELSE IF r.req = "FocusWindow"
        THEN [i \in 1..Len(ws) |-> [ws[i] EXCEPT !.is_focused = (ws[i].id = id)]]
        ELSE IF ~HasWorkspace(wss, Unwrap(r.reference)) THEN ws
        ELSE IF r.focus
        THEN [i \in 1..Len(ws) |->
                IF ws[i].id = id
                THEN [ws[i] EXCEPT !.workspace_id = r.reference,
                                   !.is_focused = TRUE]
                ELSE [ws[i] EXCEPT !.is_focused = FALSE]]
        ELSE IF old.is_focused /\ old.workspace_id # r.reference
        THEN [i \in 1..Len(ws) |->
                IF ws[i].id = id
                THEN [ws[i] EXCEPT !.workspace_id = r.reference,
                                   !.is_focused = FALSE]
                ELSE [ws[i] EXCEPT !.is_focused =
                         (HeirOf(ws, id, old.workspace_id) = Some(ws[i].id))]]
        ELSE [i \in 1..Len(ws) |->
                IF ws[i].id = id
                THEN [ws[i] EXCEPT !.workspace_id = r.reference]
                ELSE ws[i]]

\* The workspaces after the compositor handled the action: focus follows a
\* window that is focused or moved with focus.
CompositorWorkspaces(ws, wss, r) ==
    LET id == Unwrap(r.window_id)
        old == SelectSeq(ws, LAMBDA w : w.id = id)[1]
        goal == IF r.req = "FocusWindow" THEN old.workspace_id ELSE r.reference
    IN  IF ~HasWindow(ws, id) THEN wss
        ELSE IF r.req = "MoveWindowToWorkspace" /\ ~r.focus THEN wss
        ELSE IF goal = None \/ ~HasWorkspace(wss, Unwrap(goal)) THEN wss
        ELSE [i \in 1..Len(wss) |->
                [wss[i] EXCEPT !.is_focused = (wss[i].id = Unwrap(goal))]]


(***************************************************************************)
(* State.  windows and workspaces are the compositor's; the rest is one    *)
(* entry per invocation of the program (a process): where it stands, its   *)
(* command line, its snapshot, the requests it has sent with their         *)
(* replies, the requests it still has to send, and what it did.            *)
(***************************************************************************)
VARIABLES windows, workspaces, pc, command, application, snap_windows,
          snap_workspaces, todo, sent, launches, spawned, result,
          in_windows, in_workspaces, in_matches, in_excludes, out_mappings,
          out_matched, out_located

vars == <<windows, workspaces, pc, command, application, snap_windows,
          snap_workspaces, todo, sent, launches, spawned, result,
          in_windows, in_workspaces, in_matches, in_excludes, out_mappings,
          out_matched, out_located>>

proc_vars == <<windows, workspaces, pc, command, application, snap_windows,
               snap_workspaces, todo, sent, launches, spawned, result>>

locate_vars == <<in_windows, in_workspaces, in_matches, in_excludes,
                 out_mappings, out_matched, out_located>>

Procs == {"p1", "p2"}

\* Most windows the compositor of the orchestrator's specification holds.
MaxLiveWindows == 2

WorkspaceIds == 1..2

\* A workspace id no workspace of the compositor has.
StaleWorkspaceId == CHOOSE i \in 1..10 : i \notin WorkspaceIds

WindowId(i) == 100 + i

\* Workspaces 1..2 in order, at most one focused, any of them hidden.
LiveWorkspaces ==
    {[i \in WorkspaceIds |-> Workspace(i, i = f, i \in h)] :
        f \in {0} \cup WorkspaceIds, h \in SUBSET WorkspaceIds}

LiveAttrs ==
    [app_id : {Some(StrT), Some(StrTE)},
     workspace_id : {None, Some(StaleWorkspaceId)}
                        \cup {Some(i) : i \in WorkspaceIds}]

\* Window lists over the workspaces wss: distinct ids, later windows with
\* lower pids, at most one window focused and that one on the focused
\* workspace.
LiveWindowList(a, f) ==
    [i \in 1..Len(a) |->
        Window(WindowId(i), a[i].app_id, None, Some(10 - i),
               a[i].workspace_id, i = f)]

LiveWindows(wss) ==
    UNION {
        UNION {
            {LiveWindowList(a, f) :
                f \in {0} \cup {i \in 1..n :
                                   /\ FocusedWorkspaceId(wss) # None
                                   /\ a[i].workspace_id = FocusedWorkspaceId(wss)}} :
            a \in [1..n -> LiveAttrs]} :
        n \in 0..MaxLiveWindows}

(***************************************************************************)
(* The inputs of the locator's own specification.                          *)
(***************************************************************************)
Pids == {None} \cup {Some(i) : i \in 1..MaxPid}

\* The indexes a rule of the locator's specification carries.
RuleIndexes == {None, Some(0), Some(1)}

\* Windows "t" with every pid, a window "te", and one without app id.
LocateWindowAttrs ==
    [app_id : {Some(StrT)}, title : {None}, pid : Pids]
        \cup {[app_id |-> Some(StrTE), title |-> None, pid |-> Some(1)],
              [app_id |-> None, title |-> Some(StrT), pid |-> None]}

LocateWindows ==
    UNION {
        {[i \in 1..n |->
             Window(WindowId(i), a[i].app_id, a[i].title, a[i].pid,
                    Some(1), FALSE)] :
            a \in [1..n -> LocateWindowAttrs]} :
        n \in 0..MaxWindows}

LocateRules ==
    [app_id : {Some(StrT), Some(StrTE)}, title : {None}, index : RuleIndexes]
        \cup {MatchRule(None, None, None), MatchRule(None, Some(StrT), None)}

\* At most two include rules and at most one exclude rule.
LocateRuleLists ==
    UNION {[matches : [1..k -> LocateRules], excludes : [1..j -> LocateRules]] :
              k \in 0..2, j \in 0..1}

IdleProcs(v) == [p \in Procs |-> v]

ProcInit ==
    /\ pc = IdleProcs("idle")
    /\ command = IdleProcs("")
    /\ application = IdleProcs(None)
    /\ snap_windows = IdleProcs(<<>>)
    /\ snap_workspaces = IdleProcs(<<>>)
    /\ todo = IdleProcs(<<>>)
    /\ sent = IdleProcs(<<>>)
    /\ launches = IdleProcs(0)
    /\ spawned = IdleProcs(<<>>)
    /\ result = IdleProcs("")

LocateIdle ==
    /\ in_windows = <<>>
    /\ in_workspaces = <<>>
    /\ in_matches = <<>>
    /\ in_excludes = <<>>
    /\ out_mappings = <<>>
    /\ out_matched = <<>>
    /\ out_located = None

Init ==
    /\ workspaces \in LiveWorkspaces
    /\ windows \in LiveWindows(workspaces)
    /\ ProcInit
    /\ LocateIdle

(***************************************************************************)
(* main: parse the command line and the configuration, find the            *)
(* application and enter the command.  validate only prints; launch goes   *)
(* straight to pub fn launch; the others connect to the compositor first.  *)
(***************************************************************************)
Start(p, cmd, name) ==
    LET app == find_application(name)
    IN  /\ command' = [command EXCEPT ![p] = cmd]
        /\ application' = [application EXCEPT
                              ![p] = IF cmd = "validate" THEN None ELSE app]
        /\ pc' = [pc EXCEPT ![p] =
                     IF cmd = "validate" \/ app = None THEN "exit"
                     ELSE IF cmd = "launch" THEN "launch"
                     ELSE "connect"]
        /\ result' = [result EXCEPT ![p] =
                         IF cmd = "validate" THEN "ok"
                         ELSE IF app = None THEN "AppNotFound"
                         ELSE ""]
        /\ UNCHANGED <<windows, workspaces, snap_windows, snap_workspaces,
                       todo, sent, launches, spawned>>
        /\ UNCHANGED locate_vars

Invoke(p) ==
    /\ pc[p] = "idle"
    /\ \E cmd \in Commands, name \in AppNames :
          /\ cmd = "validate" => name = "unknown"
          /\ Start(p, cmd, name)

\* How an invocation ends: pc "exit" with result "ok" or the error.
Exit(p, res) ==
    /\ pc' = [pc EXCEPT ![p] = "exit"]
    /\ result' = [result EXCEPT ![p] = res]
    /\ todo' = [todo EXCEPT ![p] = <<>>]

\* A request in the log of sent requests, with how it was answered:
\* "Transport" (send failed), "Error" (the reply is an error or of another
\* type) or "Ok".
Logged(r, reply) ==
    [req |-> r.req, window_id |-> r.window_id, reference |-> r.reference,
     focus |-> r.focus, reply |-> reply]

Replies == {"Transport", "Error", "Ok"}

\* Socket::connect at the head of show, hide, activate and toggle.
Connect(p) ==
    /\ pc[p] = "connect"
    /\ \E ok \in BOOLEAN :
          IF ok
          THEN /\ pc' = [pc EXCEPT ![p] = "list_windows"]
               /\ UNCHANGED <<result, todo>>
          ELSE Exit(p, "Connect")
    /\ UNCHANGED <<windows, workspaces, command, application, snap_windows,
                   snap_workspaces, sent, launches, spawned>>
    /\ UNCHANGED locate_vars

\* get_window_and_workspace_list: socket.send(Request::Windows)
ListWindows(p) ==
    /\ pc[p] = "list_windows"
    /\ \E reply \in Replies :
          /\ sent' = [sent EXCEPT
                         ![p] = Append(@, Logged(ListRequest("Windows"), reply))]
          /\ snap_windows' = [snap_windows EXCEPT
                                 ![p] = IF reply = "Ok" THEN windows ELSE <<>>]
          /\ IF reply = "Transport"
             THEN Exit(p, "Transport")
             ELSE /\ pc' = [pc EXCEPT ![p] = "list_workspaces"]
                  /\ UNCHANGED <<result, todo>>
    /\ UNCHANGED <<windows, workspaces, command, application, snap_workspaces,
                   launches, spawned>>
    /\ UNCHANGED locate_vars

\* The lists as they would be taken if the window list alone were enough.
ListsRetrieved_WindowsOnly(windows_reply, workspaces_reply) ==
    windows_reply = "Ok"

\* The let-else of get_window_and_workspace_list: both replies must be Ok
\* and of the expected type.
ListsRetrieved(windows_reply, workspaces_reply) ==
    windows_reply = "Ok" /\ workspaces_reply = "Ok"

\* What the command does once both lists are there, up to its first request.
Decided(p, plan) ==
    IF plan.kind = "fail" THEN Exit(p, plan.error)
    ELSE /\ pc' = [pc EXCEPT ![p] = IF plan.kind = "launch" THEN "launch"
                                    ELSE "send"]
         /\ todo' = [todo EXCEPT ![p] = plan.reqs]
         /\ UNCHANGED result

\* get_window_and_workspace_list: socket.send(Request::WorkspacesWithHidden)
\* and the match on both replies; then the command runs on the snapshot.
ListWorkspaces(p) ==
    /\ pc[p] = "list_workspaces"
    /\ \E reply \in Replies :
          /\ sent' = [sent EXCEPT
                         ![p] = Append(@, Logged(ListRequest("WorkspacesWithHidden"),
                                                 reply))]
          /\ snap_workspaces' = [snap_workspaces EXCEPT
                                    ![p] = IF reply = "Ok" THEN workspaces ELSE <<>>]
          /\ IF reply = "Transport" THEN Exit(p, "Transport")
             ELSE IF ~ListsRetrieved(sent[p][1].reply, reply)
             THEN Exit(p, "ListFailed")
             ELSE Decided(p, RunAction(command[p], snap_windows[p],
                                       IF reply = "Ok" THEN workspaces ELSE <<>>,
                                       Unwrap(application[p])))
    /\ UNCHANGED <<windows, workspaces, command, application, snap_windows,
                   launches, spawned>>
    /\ UNCHANGED locate_vars

\* socket.send(Request::Action(..)) of the next mutating request.  The reply
\* is dropped (let _ =): only a failed send ends the command.
Send(p) ==
    /\ pc[p] = "send"
    /\ todo[p] # <<>>
    /\ \E reply \in Replies :
          LET r == Head(todo[p])
          IN  /\ sent' = [sent EXCEPT ![p] = Append(@, Logged(r, reply))]
              /\ IF reply = "Ok"
                 THEN /\ windows' = CompositorWindows(windows, workspaces, r)
                      /\ workspaces' = CompositorWorkspaces(windows, workspaces, r)
                 ELSE UNCHANGED <<windows, workspaces>>
              /\ IF reply = "Transport" THEN Exit(p, "Transport")
                 ELSE IF Tail(todo[p]) = <<>> THEN Exit(p, "ok")
                 ELSE /\ todo' = [todo EXCEPT ![p] = Tail(@)]
                      /\ UNCHANGED <<pc, result>>
    /\ UNCHANGED <<command, application, snap_windows, snap_workspaces,
                   launches, spawned>>
    /\ UNCHANGED locate_vars

\* pub fn launch up to process.spawn()
Launch(p) ==
    /\ pc[p] = "launch"
    /\ launches' = [launches EXCEPT ![p] = @ + 1]
    /\ LET c == launch_command(Unwrap(application[p]))
       IN  IF c.error # ""
           THEN /\ Exit(p, c.error)
                /\ UNCHANGED spawned
           ELSE \E ok \in BOOLEAN :
                   IF ok
                   THEN /\ spawned' = [spawned EXCEPT
                                          ![p] = Append(@, [command |-> c.command,
                                                            args |-> c.args])]
                        /\ pc' = [pc EXCEPT ![p] = "wait"]
                        /\ UNCHANGED <<result, todo>>
                   ELSE /\ Exit(p, "SpawnFailed")
                        /\ UNCHANGED spawned
    /\ UNCHANGED <<windows, workspaces, command, application, snap_windows,
                   snap_workspaces, sent>>
    /\ UNCHANGED locate_vars

\* child.wait(): the invocation blocks until the child exits
Wait(p) ==
    /\ pc[p] = "wait"
    /\ \E ok \in BOOLEAN : Exit(p, IF ok THEN "ok" ELSE "WaitFailed")
    /\ UNCHANGED <<windows, workspaces, command, application, snap_windows,
                   snap_workspaces, sent, launches, spawned>>
    /\ UNCHANGED locate_vars

\* The process is gone; the next key press starts from nothing.
Return(p) ==
    /\ pc[p] = "exit"
    /\ pc' = [pc EXCEPT ![p] = "idle"]
    /\ command' = [command EXCEPT ![p] = ""]
    /\ application' = [application EXCEPT ![p] = None]
    /\ snap_windows' = [snap_windows EXCEPT ![p] = <<>>]
    /\ snap_workspaces' = [snap_workspaces EXCEPT ![p] = <<>>]
    /\ todo' = [todo EXCEPT ![p] = <<>>]
    /\ sent' = [sent EXCEPT ![p] = <<>>]
    /\ launches' = [launches EXCEPT ![p] = 0]
    /\ spawned' = [spawned EXCEPT ![p] = <<>>]
    /\ result' = [result EXCEPT ![p] = ""]
    /\ UNCHANGED <<windows, workspaces>>
    /\ UNCHANGED locate_vars

Step(p) ==
    \/ Invoke(p)
    \/ Return(p)
    \/ Connect(p)
    \/ ListWindows(p)
    \/ ListWorkspaces(p)
    \/ Send(p)
    \/ Launch(p)
    \/ Wait(p)

\* One invocation at a time: a key press runs the program to its exit.
Next == Step("p1")

Spec == Init /\ [][Next]_vars


(***************************************************************************)
(* The locator on its own: every window list and every pair of rule lists  *)
(* of the bounded sets, and one step that runs the locator on them.        *)
(***************************************************************************)
InitLocate ==
    /\ windows = <<>>
    /\ workspaces = <<>>
    /\ ProcInit
    /\ in_windows \in LocateWindows
    /\ in_workspaces = <<Workspace(1, TRUE, FALSE)>>
    /\ \E rl \in LocateRuleLists :
          /\ in_matches = rl.matches
          /\ in_excludes = rl.excludes
    /\ out_mappings = <<>>
    /\ out_matched = <<>>
    /\ out_located = None

\* get_matched_window_and_workspace, with the two lists of mappings its
\* calls of match_windows_with_rules return (excludes first) and the
\* matched_windows it filters out of the snapshot.
Locate ==
    /\ out_located = None
    /\ out_mappings' = <<match_windows_with_rules(in_windows, in_excludes),
                         match_windows_with_rules(in_windows, in_matches)>>
    /\ out_matched' = matched_windows(in_windows, in_matches, in_excludes)
    /\ out_located' = Some(get_matched_window_and_workspace(
                               in_windows, in_workspaces, in_matches, in_excludes))
    /\ UNCHANGED <<in_windows, in_workspaces, in_matches, in_excludes>>
    /\ UNCHANGED proc_vars

NextLocate == Locate

SpecLocate == InitLocate /\ [][NextLocate]_vars


(***************************************************************************)
(* Two presses of one hotkey: two invocations of toggle for the same       *)
(* application, each a process of its own.  Nothing orders the steps of    *)
(* one against the steps of the other.                                     *)
(***************************************************************************)
\* The applications that have a hotkey bound to their toggle.
HotkeyApps == {"term", "rest"}

\* The hotkey is pressed: toggle for its application, the one of the other
\* press if there was one.
Press(p) ==
    /\ pc[p] = "idle"
    /\ \E name \in HotkeyApps :
          /\ \A q \in Procs \ {p} :
                application[q] # None => application[q] = find_application(name)
          /\ Start(p, "toggle", name)

Run(p) ==
    \/ Connect(p)
    \/ ListWindows(p)
    \/ ListWorkspaces(p)
    \/ Send(p)
    \/ Launch(p)
    \/ Wait(p)

NextRace == \E p \in Procs : Press(p) \/ Run(p)

SpecRace == Init /\ [][NextRace]_vars

(***************************************************************************)
(* The same two presses one after the other: the second invocation starts  *)
(* when the first has exited.                                              *)
(***************************************************************************)
First == "p1"

Second == "p2"

PressSecond ==
    /\ pc[First] = "exit"
    /\ Press(Second)

NextTwice == Press(First) \/ Run(First) \/ PressSecond \/ Run(Second)

SpecTwice == Init /\ [][NextTwice]_vars


(***************************************************************************)
(* What the properties below read off an invocation.                       *)
(***************************************************************************)
\* The invocation the properties of Spec speak about.
Me == "p1"

IsMutating(l) == l.req \in {"MoveWindowToWorkspace", "FocusWindow"}

\* The mutating requests the invocation has issued so far, in order, with
\* their replies.
Mutating(p) == SelectSeq(sent[p], IsMutating)

\* The same without the replies.
Issued(p) ==
    [i \in 1..Len(Mutating(p)) |->
        [req |-> Mutating(p)[i].req, window_id |-> Mutating(p)[i].window_id,
         reference |-> Mutating(p)[i].reference, focus |-> Mutating(p)[i].focus]]

\* Both listing requests were answered with the lists.
HasSnapshot(p) ==
    /\ Len(sent[p]) >= 2
    /\ sent[p][1].reply = "Ok"
    /\ sent[p][2].reply = "Ok"

\* The invocation of cmd has taken its snapshot and has ended.
Ended(p, cmd) == pc[p] = "exit" /\ command[p] = cmd /\ HasSnapshot(p)

\* What the locate step returned on the invocation's snapshot.
Located(p) ==
    get_matched_window_and_workspace(
        snap_windows[p], snap_workspaces[p],
        Unwrap(application[p]).matches, Unwrap(application[p]).excludes)

MatchedWindow(p) == Unwrap(Located(p).window)

MatchedWorkspace(p) == Unwrap(Located(p).workspace)

SnapFocusedWorkspace(p) == get_focused_workspace(snap_workspaces[p])

SnapHiddenWorkspace(p) == get_hidden_workspace(snap_workspaces[p])

\* The matched window is the focused window of the snapshot.
MatchedIsFocused(p) ==
    /\ get_focused_window(snap_windows[p]) # None
    /\ Unwrap(get_focused_window(snap_windows[p])).id = MatchedWindow(p).id

Failed(p) == result[p] \notin {"", "ok"}

(***************************************************************************)
(* C1.  A show whose locate step returns a matched window, with a focused  *)
(* workspace in the snapshot, issues exactly one mutating request: the     *)
(* move to the focused workspace with focus when the window's workspace    *)
(* differs from it, FocusWindow otherwise.                                 *)
(* Stated for the shows that end in success with every request handled.    *)
(* The code sends FocusWindow after the move as well: this fails.          *)
(***************************************************************************)
C1_ShowIssuesExactlyOneRequest ==
    (/\ Ended(Me, "show")
     /\ result[Me] = "ok"
     /\ \A i \in 1..Len(Mutating(Me)) : Mutating(Me)[i].reply = "Ok"
     /\ Located(Me).kind = "Matched"
     /\ SnapFocusedWorkspace(Me) # None)
    => Issued(Me) =
          IF Unwrap(SnapFocusedWorkspace(Me)).id # MatchedWorkspace(Me).id
          THEN <<MoveWindowToWorkspace(MatchedWindow(Me).id,
                                       Unwrap(SnapFocusedWorkspace(Me)).id, TRUE)>>
          ELSE <<FocusWindow(MatchedWindow(Me).id)>>

(***************************************************************************)
(* C2.  The branches of toggle as an observer sees them fire: launch (pub  *)
(* fn launch is entered), hide (a move without focus is issued),           *)
(* bring-forward (a move with focus or a FocusWindow is issued).           *)
(***************************************************************************)
LaunchFired(p) == launches[p] > 0

HideFired(p) ==
    \E i \in 1..Len(Issued(p)) :
        Issued(p)[i].req = "MoveWindowToWorkspace" /\ ~Issued(p)[i].focus

ForwardFired(p) ==
    \E i \in 1..Len(Issued(p)) :
        \/ Issued(p)[i].req = "FocusWindow"
        \/ Issued(p)[i].req = "MoveWindowToWorkspace" /\ Issued(p)[i].focus

FiredBranches(p) ==
    {b \in {"launch", "hide", "forward"} :
        \/ b = "launch" /\ LaunchFired(p)
        \/ b = "hide" /\ HideFired(p)
        \/ b = "forward" /\ ForwardFired(p)}

\* The branch the classification no match / matched and focused / matched
\* and not focused names.
ClassBranch(p) ==
    IF Located(p).kind = "NoMatch" THEN "launch"
    ELSE IF MatchedIsFocused(p) THEN "hide"
    ELSE "forward"

LocateDidNotFail(p) == Located(p).kind \in {"NoMatch", "Matched"}

(***************************************************************************)
(* C2 as stated: whenever locate does not fail, a toggle ends with exactly *)
(* the branch of its classification fired.  It fails: with the matched     *)
(* window focused and no hidden workspace (or not focused and no focused   *)
(* workspace) toggle ends in an error with no branch fired.                *)
(***************************************************************************)
C2_ToggleAlwaysFiresOneBranch ==
    (Ended(Me, "toggle") /\ LocateDidNotFail(Me))
    => FiredBranches(Me) = {ClassBranch(Me)}

\* The workspace the branch of the classification needs is in the snapshot.
BranchWorkspaceFound(p) ==
    CASE ClassBranch(p) = "launch"  -> TRUE
      [] ClassBranch(p) = "hide"    -> SnapHiddenWorkspace(p) # None
      [] ClassBranch(p) = "forward" -> SnapFocusedWorkspace(p) # None

(***************************************************************************)
(* C2 amended: whenever locate does not fail, a toggle never fires a       *)
(* branch other than the one of its classification, and it ends with that  *)
(* branch fired unless the workspace the branch needs is missing from the  *)
(* snapshot (hide: no hidden workspace, bring-forward: no focused          *)
(* workspace); then it ends in that error with no branch fired.            *)
(***************************************************************************)
C2_ToggleFiresClassBranch ==
    (command[Me] = "toggle" /\ HasSnapshot(Me) /\ LocateDidNotFail(Me))
    => /\ FiredBranches(Me) \subseteq {ClassBranch(Me)}
       /\ pc[Me] = "exit" =>
             IF BranchWorkspaceFound(Me)
             THEN FiredBranches(Me) = {ClassBranch(Me)}
             ELSE /\ FiredBranches(Me) = {}
                  /\ result[Me] = IF ClassBranch(Me) = "hide"
                                  THEN "NoHiddenWorkspace"
                                  ELSE "NoFocusedWorkspace"

\* A toggle on a focused matched window ended without a hidden workspace.
C2_Witness ==
    /\ Ended(Me, "toggle")
    /\ Located(Me).kind = "Matched"
    /\ MatchedIsFocused(Me)
    /\ SnapHiddenWorkspace(Me) = None
    /\ result[Me] = "NoHiddenWorkspace"

(***************************************************************************)
(* C3.  A toggle whose locate step yields no matched window enters the     *)
(* launch path exactly once and issues no mutating request.                *)
(***************************************************************************)
C3_ToggleNoMatchLaunchesOnce ==
    (command[Me] = "toggle" /\ HasSnapshot(Me) /\ Located(Me).kind = "NoMatch")
    => /\ Issued(Me) = <<>>
       /\ launches[Me] <= 1
       /\ pc[Me] \in {"wait", "exit"} => launches[Me] = 1

\* Such a toggle has spawned the application and has ended.
C3_Witness ==
    /\ Ended(Me, "toggle")
    /\ Located(Me).kind = "NoMatch"
    /\ Len(spawned[Me]) = 1
    /\ result[Me] = "ok"

(***************************************************************************)
(* C4.  A hide whose matched window is not the focused window of the       *)
(* snapshot (no window focused included) fails and issues no mutating      *)
(* request.                                                                *)
(***************************************************************************)
C4_HideNotFocusedFails ==
    (/\ command[Me] = "hide"
     /\ HasSnapshot(Me)
     /\ Located(Me).kind = "Matched"
     /\ ~MatchedIsFocused(Me))
    => /\ pc[Me] = "exit"
       /\ Failed(Me)
       /\ Issued(Me) = <<>>

\* Such a hide ended, with another window focused.
C4_Witness ==
    /\ Ended(Me, "hide")
    /\ Located(Me).kind = "Matched"
    /\ get_focused_window(snap_windows[Me]) # None
    /\ ~MatchedIsFocused(Me)
    /\ result[Me] = "NotFocused"

(***************************************************************************)
(* C5.  A show on a matched window that is already the focused window, on  *)
(* the focused workspace, issues exactly one mutating request, a           *)
(* FocusWindow of that window, and no move.                                *)
(***************************************************************************)
C5_ShowOnFocusedOnlyFocuses ==
    (/\ Ended(Me, "show")
     /\ Located(Me).kind = "Matched"
     /\ MatchedIsFocused(Me)
     /\ SnapFocusedWorkspace(Me) # None
     /\ Unwrap(SnapFocusedWorkspace(Me)).id = MatchedWorkspace(Me).id)
    => Issued(Me) = <<FocusWindow(MatchedWindow(Me).id)>>

\* Such a show ended in success.
C5_Witness ==
    /\ Ended(Me, "show")
    /\ Located(Me).kind = "Matched"
    /\ MatchedIsFocused(Me)
    /\ SnapFocusedWorkspace(Me) # None
    /\ Unwrap(SnapFocusedWorkspace(Me)).id = MatchedWorkspace(Me).id
    /\ result[Me] = "ok"
    /\ Len(Issued(Me)) = 1

(***************************************************************************)
(* C6.  After a show that completed successfully, the compositor having    *)
(* handled each request, the matched window is the focused window and is   *)
(* on the focused workspace, whatever workspace it started on.             *)
(***************************************************************************)
AllHandled(p) == \A i \in 1..Len(Mutating(p)) : Mutating(p)[i].reply = "Ok"

LiveWindow(id) == SelectSeq(windows, LAMBDA w : w.id = id)[1]

C6_ShowEndsFocused ==
    (Ended(Me, "show") /\ result[Me] = "ok" /\ AllHandled(Me))
    => /\ HasWindow(windows, MatchedWindow(Me).id)
       /\ LiveWindow(MatchedWindow(Me).id).is_focused
       /\ get_focused_window(windows) = Some(LiveWindow(MatchedWindow(Me).id))
       /\ FocusedWorkspaceId(workspaces) # None
       /\ LiveWindow(MatchedWindow(Me).id).workspace_id
             = FocusedWorkspaceId(workspaces)

\* Such a show, of a window that started on the hidden workspace, which was
\* not the focused one.
C6_Witness ==
    /\ Ended(Me, "show")
    /\ result[Me] = "ok"
    /\ AllHandled(Me)
    /\ MatchedWorkspace(Me).is_hidden
    /\ ~MatchedWorkspace(Me).is_focused
    /\ ~MatchedIsFocused(Me)
    /\ LiveWindow(MatchedWindow(Me).id).is_focused


(***************************************************************************)
(* The selection of one rule as the specification words it: every window   *)
(* of the rule's list without index, the window at 0-based position k with *)
(* index k, nothing when k is out of range.                                *)
(***************************************************************************)
SelectsByIndex(m) ==
    IF m.index = None THEN SeqToSet(m.ids)
    ELSE IF Unwrap(m.index) < Len(m.ids) THEN {m.ids[Unwrap(m.index) + 1]}
    ELSE {}

\* The union of the selections of a list of mappings.
SelectedByRules(mappings) ==
    UNION {SelectsByIndex(mappings[r]) : r \in 1..Len(mappings)}

\* Include-selected minus exclude-selected on a snapshot.
CandidateIds(ws, matches, excludes) ==
    SelectedByRules(match_windows_with_rules(ws, matches))
        \ SelectedByRules(match_windows_with_rules(ws, excludes))

\* The locator has run (specification SpecLocate).
LocateDone == out_located # None

(***************************************************************************)
(* C7.  The candidate set of the locator is the union of the selections of *)
(* the include rules minus the union of the selections of the exclude      *)
(* rules; the final match is never a window an exclude rule selects.       *)
(***************************************************************************)
C7_CandidatesAreIncludeMinusExclude ==
    LocateDone
    => /\ SeqToSet(WindowIds(out_matched))
             = SelectedByRules(out_mappings[2]) \ SelectedByRules(out_mappings[1])
       /\ Unwrap(out_located).window # None
             => Unwrap(Unwrap(out_located).window).id
                    \notin SelectedByRules(out_mappings[1])
       /\ \A r \in 1..Len(out_mappings[2]) :
             SelectsByIndex(out_mappings[2][r])
                 \ SelectedByRules(out_mappings[1])
                    \subseteq SeqToSet(WindowIds(out_matched))

\* Two include rules each select a window the other does not, and an
\* exclude rule takes one of the two away: the other is the match.
C7_Witness ==
    /\ LocateDone
    /\ Len(in_matches) = 2
    /\ Len(in_excludes) = 1
    /\ SelectsByIndex(out_mappings[2][1]) \ SelectsByIndex(out_mappings[2][2]) # {}
    /\ SelectsByIndex(out_mappings[2][2]) \ SelectsByIndex(out_mappings[2][1]) # {}
    /\ SelectsByIndex(out_mappings[2][1]) \cap SelectsByIndex(out_mappings[1][1]) # {}
    /\ Unwrap(out_located).kind = "Matched"

(***************************************************************************)
(* C8.  Index semantics, the same for include and exclude rules: alone, an *)
(* include rule yields as candidates exactly the window at its index in    *)
(* its own list (none when out of range, all without index); against an    *)
(* include rule that matches every window, an exclude rule removes exactly *)
(* that window.  And with an include rule matching two windows that have   *)
(* pids and the same pattern as exclude rule with index 0, exactly one     *)
(* candidate is left, the window with the higher pid, and locate returns   *)
(* it.                                                                     *)
(***************************************************************************)
PidOf(ws, id) == Unwrap(SelectSeq(ws, LAMBDA w : w.id = id)[1].pid)

C8_Scenario ==
    /\ Len(in_matches) = 1
    /\ Len(in_excludes) = 1
    /\ in_matches[1].index = None
    /\ in_excludes[1] = [in_matches[1] EXCEPT !.index = Some(0)]
    /\ Len(out_mappings[2][1].ids) = 2
    /\ \A w \in SeqToSet(in_windows) :
          w.id \in SeqToSet(out_mappings[2][1].ids) => w.pid # None

C8_IndexSemantics ==
    LocateDone
    => /\ (Len(in_matches) = 1 /\ in_excludes = <<>>)
             => SeqToSet(WindowIds(out_matched)) = SelectsByIndex(out_mappings[2][1])
       /\ (in_matches = <<MatchRule(None, None, None)>> /\ Len(in_excludes) = 1)
             => SeqToSet(WindowIds(out_matched))
                    = SeqToSet(WindowIds(in_windows))
                         \ SelectsByIndex(out_mappings[1][1])
       /\ C8_Scenario
             => /\ Len(out_matched) = 1
                /\ Unwrap(out_located).kind = "Matched"
                /\ Unwrap(Unwrap(out_located).window) = out_matched[1]
                /\ \A id \in SeqToSet(out_mappings[2][1].ids) :
                      PidOf(in_windows, id) <= PidOf(in_windows, out_matched[1].id)

\* The scenario with two different pids, the lower one later in the list.
C8_Witness ==
    /\ LocateDone
    /\ C8_Scenario
    /\ Len(out_matched) = 1
    /\ \E i, j \in 1..Len(in_windows) :
          /\ i < j
          /\ in_windows[i].id = out_matched[1].id
          /\ in_windows[j].id \in SeqToSet(out_mappings[2][1].ids)
          /\ in_windows[j].pid # None
          /\ Unwrap(in_windows[j].pid) < Unwrap(in_windows[i].pid)

(***************************************************************************)
(* C9.  With more than one candidate on the snapshot, show, hide, activate *)
(* and toggle end in the ambiguity error at once: no mutating request is   *)
(* issued and toggle does not launch.                                      *)
(***************************************************************************)
SnapCandidateIds(p) ==
    CandidateIds(snap_windows[p], Unwrap(application[p]).matches,
                 Unwrap(application[p]).excludes)

C9_AmbiguityFailsWithoutRequest ==
    (/\ command[Me] \in IpcCommands
     /\ HasSnapshot(Me)
     /\ Cardinality(SnapCandidateIds(Me)) > 1)
    => /\ pc[Me] = "exit"
       /\ result[Me] = "Ambiguous"
       /\ Issued(Me) = <<>>
       /\ launches[Me] = 0
       /\ spawned[Me] = <<>>

\* A toggle ended on two candidates.
C9_Witness ==
    /\ Ended(Me, "toggle")
    /\ Cardinality(SnapCandidateIds(Me)) = 2
    /\ result[Me] = "Ambiguous"

(***************************************************************************)
(* C10.  Every command on an application that has not exactly one of       *)
(* spawn and spawn_sh ends in an error with no mutating request issued and *)
(* no process spawned.  The code looks at the launch spec in pub fn launch *)
(* only, and there takes spawn when both are given: this fails.            *)
(***************************************************************************)
ExactlyOneSpawn(a) == IsSome(a.spawn) # IsSome(a.spawn_sh)

C10_BadLaunchSpecIsConfigError ==
    (/\ pc[Me] = "exit"
     /\ command[Me] \in IpcCommands \cup {"launch"}
     /\ application[Me] # None
     /\ ~ExactlyOneSpawn(Unwrap(application[Me])))
    => /\ Failed(Me)
       /\ Issued(Me) = <<>>
       /\ spawned[Me] = <<>>

(***************************************************************************)
(* C11.  A hide whose matched window is the focused window of the snapshot *)
(* fails with no mutating request when no workspace of the snapshot has    *)
(* the hidden flag or when the window is already on the hidden workspace;  *)
(* otherwise it issues exactly one mutating request, the move of the       *)
(* window to the hidden workspace without focus.                           *)
(***************************************************************************)
C11_HideFocusedMovesToHidden ==
    (/\ Ended(Me, "hide")
     /\ Located(Me).kind = "Matched"
     /\ MatchedIsFocused(Me))
    => IF SnapHiddenWorkspace(Me) = None
       THEN result[Me] = "NoHiddenWorkspace" /\ Issued(Me) = <<>>
       ELSE IF Unwrap(SnapHiddenWorkspace(Me)).id = MatchedWorkspace(Me).id
       THEN result[Me] = "AlreadyHidden" /\ Issued(Me) = <<>>
       ELSE Issued(Me) = <<MoveWindowToWorkspace(
                               MatchedWindow(Me).id,
                               Unwrap(SnapHiddenWorkspace(Me)).id, FALSE)>>

\* A hide of the focused window ended on a workspace that is the hidden one.
C11_Witness ==
    /\ Ended(Me, "hide")
    /\ Located(Me).kind = "Matched"
    /\ MatchedIsFocused(Me)
    /\ SnapHiddenWorkspace(Me) # None
    /\ Unwrap(SnapHiddenWorkspace(Me)).id = MatchedWorkspace(Me).id
    /\ result[Me] = "AlreadyHidden"

(***************************************************************************)
(* C12.  No activate ever issues a MoveWindowToWorkspace.  An activate     *)
(* whose matched window is on the focused workspace of the snapshot issues *)
(* exactly one mutating request, FocusWindow of that window; one whose     *)
(* matched window is on another workspace fails with no mutating request.  *)
(***************************************************************************)
C12_ActivateNeverMoves ==
    command[Me] = "activate"
    => /\ \A i \in 1..Len(Issued(Me)) : Issued(Me)[i].req # "MoveWindowToWorkspace"
       /\ Ended(Me, "activate")
          => IF /\ Located(Me).kind = "Matched"
                /\ SnapFocusedWorkspace(Me) # None
                /\ Unwrap(SnapFocusedWorkspace(Me)).id = MatchedWorkspace(Me).id
             THEN Issued(Me) = <<FocusWindow(MatchedWindow(Me).id)>>
             ELSE /\ Failed(Me)
                  /\ Issued(Me) = <<>>
                  /\ (Located(Me).kind = "Matched"
                         /\ SnapFocusedWorkspace(Me) # None)
                        => result[Me] = "NotInFocusedWorkspace"

\* An activate ended on a window of another workspace than the focused one.
C12_Witness ==
    /\ Ended(Me, "activate")
    /\ Located(Me).kind = "Matched"
    /\ SnapFocusedWorkspace(Me) # None
    /\ Unwrap(SnapFocusedWorkspace(Me)).id # MatchedWorkspace(Me).id
    /\ result[Me] = "NotInFocusedWorkspace"

(***************************************************************************)
(* C13.  An invocation in which the compositor answered a mutating request *)
(* with a failure ends in an error.  The code binds the reply of every     *)
(* Action request to _ and looks only at the transport result: this fails. *)
(***************************************************************************)
C13_ActionFailureIsAnError ==
    (/\ pc[Me] = "exit"
     /\ command[Me] \in IpcCommands
     /\ \E i \in 1..Len(Mutating(Me)) : Mutating(Me)[i].reply = "Error")
    => Failed(Me)

(***************************************************************************)
(* C14.  When the single candidate of the snapshot has no workspace id, or *)
(* one that no workspace of the snapshot has, locate fails (it does not    *)
(* return no match): every command ends in that error with no mutating     *)
(* request, and toggle does not launch.                                    *)
(***************************************************************************)
SnapWindow(p, id) == SelectSeq(snap_windows[p], LAMBDA w : w.id = id)[1]

\* The snapshot has exactly one candidate and its workspace is missing.
CandidateWithoutWorkspace(p) ==
    /\ Cardinality(SnapCandidateIds(p)) = 1
    /\ \A id \in SnapCandidateIds(p) :
          \/ SnapWindow(p, id).workspace_id = None
          \/ ~HasWorkspace(snap_workspaces[p],
                           Unwrap(SnapWindow(p, id).workspace_id))

C14_MissingWorkspaceIsAnError ==
    (/\ command[Me] \in IpcCommands
     /\ HasSnapshot(Me)
     /\ CandidateWithoutWorkspace(Me))
    => /\ Located(Me).kind \in {"NoWorkspace", "WorkspaceNotFound"}
       /\ pc[Me] = "exit"
       /\ result[Me] = Located(Me).kind
       /\ Issued(Me) = <<>>
       /\ launches[Me] = 0
       /\ spawned[Me] = <<>>

\* A toggle ended on a candidate whose workspace id is not in the snapshot.
C14_Witness ==
    /\ Ended(Me, "toggle")
    /\ CandidateWithoutWorkspace(Me)
    /\ \A id \in SnapCandidateIds(Me) : SnapWindow(Me, id).workspace_id # None
    /\ result[Me] = "WorkspaceNotFound"

(***************************************************************************)
(* C15.  In every id list the rule resolver produces, any two windows that *)
(* both have a pid appear in non-decreasing pid order.  The comparator     *)
(* makes a window without pid equal to every window, so a window with pid  *)
(* never moves left past one: this fails on pids 2, none, 1.               *)
(***************************************************************************)
SortedByPid(ws, ids) ==
    \A i, j \in 1..Len(ids) :
        (/\ i < j
         /\ SelectSeq(ws, LAMBDA w : w.id = ids[i])[1].pid # None
         /\ SelectSeq(ws, LAMBDA w : w.id = ids[j])[1].pid # None)
        => PidOf(ws, ids[i]) <= PidOf(ws, ids[j])

C15_IdListsSortedByPid ==
    LocateDone
    => \A k \in 1..2 : \A r \in 1..Len(out_mappings[k]) :
          SortedByPid(in_windows, out_mappings[k][r].ids)

(***************************************************************************)
(* C16.  A toggle whose matched window is not the focused window issues,   *)
(* when the window's workspace differs from the focused workspace, the     *)
(* move to the focused workspace with focus as its only mutating request,  *)
(* and FocusWindow alone otherwise.  Stated for the toggles that end in    *)
(* success with every request handled.  The code sends FocusWindow after   *)
(* the move as well: this fails.                                           *)
(***************************************************************************)
C16_ToggleForwardIssuesOneRequest ==
    (/\ Ended(Me, "toggle")
     /\ result[Me] = "ok"
     /\ AllHandled(Me)
     /\ Located(Me).kind = "Matched"
     /\ ~MatchedIsFocused(Me)
     /\ SnapFocusedWorkspace(Me) # None)
    => Issued(Me) =
          IF Unwrap(SnapFocusedWorkspace(Me)).id # MatchedWorkspace(Me).id
          THEN <<MoveWindowToWorkspace(MatchedWindow(Me).id,
                                       Unwrap(SnapFocusedWorkspace(Me)).id, TRUE)>>
          ELSE <<FocusWindow(MatchedWindow(Me).id)>>

(***************************************************************************)
(* C17.  In an invocation of show, hide, activate or toggle the requests   *)
(* go out in the order window listing, workspace listing, mutating         *)
(* requests: each listing is requested at most once, and exactly once      *)
(* once the command is entered, unless it ended on a failure to connect or *)
(* to transmit;                                                            *)
(* both come before any mutating request and none after one; at most two   *)
(* mutating requests are issued; and when a listing is answered with an    *)
(* error or a reply of another type the invocation fails with no mutating  *)
(* request.  launch sends no request.                                      *)
(***************************************************************************)
CountOf(log, name) == Len(SelectSeq(log, LAMBDA l : l.req = name))

\* No request of the invocation met a transport failure.
Transmitted(p) == \A i \in 1..Len(sent[p]) : sent[p][i].reply # "Transport"

C17_RequestOrdering ==
    /\ command[Me] = "launch" => sent[Me] = <<>>
    /\ command[Me] \in IpcCommands
       => /\ Len(sent[Me]) >= 1 => sent[Me][1].req = "Windows"
          /\ Len(sent[Me]) >= 2 => sent[Me][2].req = "WorkspacesWithHidden"
          /\ \A i \in 3..Len(sent[Me]) : IsMutating(sent[Me][i])
          /\ Len(Mutating(Me)) <= 2
          /\ Mutating(Me) # <<>> => HasSnapshot(Me)
          /\ (/\ pc[Me] = "exit"
              /\ result[Me] \notin {"AppNotFound", "Connect"}
              /\ Transmitted(Me))
             => /\ CountOf(sent[Me], "Windows") = 1
                /\ CountOf(sent[Me], "WorkspacesWithHidden") = 1
          /\ (/\ Len(sent[Me]) >= 2
              /\ \E i \in 1..2 : sent[Me][i].reply = "Error")
             => /\ pc[Me] = "exit"
                /\ Failed(Me)
                /\ Mutating(Me) = <<>>

\* A toggle ended on a window list answered with an error, after its
\* workspace listing was requested and answered.
C17_Witness ==
    /\ pc[Me] = "exit"
    /\ command[Me] = "toggle"
    /\ Len(sent[Me]) = 2
    /\ sent[Me][1].reply = "Error"
    /\ sent[Me][2].reply = "Ok"
    /\ result[Me] = "ListFailed"

(***************************************************************************)
(* Two toggles of one application, both ended with every request handled.  *)
(***************************************************************************)
BothToggled ==
    /\ \A p \in Procs : Ended(p, "toggle") /\ AllHandled(p)
    /\ application[First] = application[Second]

\* In p's snapshot the matched window is focused and a hidden workspace
\* exists that is not the window's.
FocusedAndHideable(p) ==
    /\ Located(p).kind = "Matched"
    /\ MatchedIsFocused(p)
    /\ SnapHiddenWorkspace(p) # None
    /\ Unwrap(SnapHiddenWorkspace(p)).id # MatchedWorkspace(p).id

HideRequest(p) ==
    MoveWindowToWorkspace(MatchedWindow(p).id,
                          Unwrap(SnapHiddenWorkspace(p)).id, FALSE)

\* The window is focused and on the focused workspace of the compositor.
FocusedInFront(id) ==
    /\ HasWindow(windows, id)
    /\ LiveWindow(id).is_focused
    /\ FocusedWorkspaceId(workspaces) # None
    /\ LiveWindow(id).workspace_id = FocusedWorkspaceId(workspaces)

\* The window is on the hidden workspace and not focused.
Hidden(id, hidden) ==
    /\ HasWindow(windows, id)
    /\ LiveWindow(id).workspace_id = Some(hidden.id)
    /\ ~LiveWindow(id).is_focused

(***************************************************************************)
(* C18.  Two interleaved toggles of one application race.  When both took  *)
(* their snapshot with the matched window focused (so before the request   *)
(* of either was handled), both take the hide branch and each issues the   *)
(* move to the hidden workspace as its only request; the window ends on    *)
(* the hidden workspace, not focused, which is not where the two toggles   *)
(* leave it when they run one after the other (focused on the focused      *)
(* workspace, C19).                                                        *)
(***************************************************************************)
C18_InterleavedTogglesBothHide ==
    (BothToggled /\ FocusedAndHideable(First))
    => /\ Issued(First) = <<HideRequest(First)>>
       /\ FocusedAndHideable(Second)
          => /\ Issued(Second) = <<HideRequest(First)>>
             /\ Hidden(MatchedWindow(First).id, Unwrap(SnapHiddenWorkspace(First)))
             /\ ~FocusedInFront(MatchedWindow(First).id)

\* Both invocations took the same snapshot, with the window focused, and
\* both have ended having moved it to the hidden workspace.
C18_Witness ==
    /\ BothToggled
    /\ FocusedAndHideable(First)
    /\ FocusedAndHideable(Second)
    /\ snap_windows[First] = snap_windows[Second]
    /\ snap_workspaces[First] = snap_workspaces[Second]
    /\ Issued(First) = <<HideRequest(First)>>
    /\ Issued(Second) = <<HideRequest(First)>>
    /\ Hidden(MatchedWindow(First).id, Unwrap(SnapHiddenWorkspace(First)))

(***************************************************************************)
(* C19.  Toggle round trip.  From a state in which the matched window is   *)
(* focused, on the focused workspace, and a hidden workspace other than    *)
(* the focused one exists, two toggles one after the other, every request  *)
(* handled, leave the window focused on the focused workspace again: the   *)
(* first issues only the move to the hidden workspace, the second the move *)
(* back to the focused workspace with focus (and the FocusWindow the code  *)
(* sends after it).                                                        *)
(***************************************************************************)
C19_ToggleRoundTrip ==
    (/\ BothToggled
     /\ FocusedAndHideable(First)
     /\ SnapFocusedWorkspace(First) # None
     /\ Unwrap(SnapFocusedWorkspace(First)).id = MatchedWorkspace(First).id)
    => /\ Issued(First) = <<HideRequest(First)>>
       /\ Issued(Second) =
             <<MoveWindowToWorkspace(MatchedWindow(First).id,
                                     Unwrap(SnapFocusedWorkspace(First)).id, TRUE),
               FocusWindow(MatchedWindow(First).id)>>
       /\ FocusedInFront(MatchedWindow(First).id)
       /\ FocusedWorkspaceId(workspaces)
             = Some(Unwrap(SnapFocusedWorkspace(First)).id)

\* Such a round trip has ended, and another window had the focus in between.
C19_Witness ==
    /\ BothToggled
    /\ FocusedAndHideable(First)
    /\ SnapFocusedWorkspace(First) # None
    /\ Unwrap(SnapFocusedWorkspace(First)).id = MatchedWorkspace(First).id
    /\ get_focused_window(snap_windows[Second]) # None
    /\ ~MatchedIsFocused(Second)
    /\ FocusedInFront(MatchedWindow(First).id)

(***************************************************************************)
(* C20.  Request targets.  Every mutating request of an invocation names   *)
(* the single window locate returned on the invocation's snapshot; every   *)
(* MoveWindowToWorkspace goes either to the first focused workspace of the *)
(* snapshot, with focus, or to the first hidden workspace of the snapshot, *)
(* without focus; and no request names a window or workspace id that is    *)
(* not in the snapshot.                                                    *)
(***************************************************************************)
TargetsSnapshot(p, r) ==
    /\ Located(p).kind = "Matched"
    /\ r.window_id = Some(MatchedWindow(p).id)
    /\ HasWindow(snap_windows[p], Unwrap(r.window_id))
    /\ r.req = "MoveWindowToWorkspace"
       => /\ HasWorkspace(snap_workspaces[p], Unwrap(r.reference))
          /\ IF r.focus
             THEN /\ SnapFocusedWorkspace(p) # None
                  /\ r.reference = Some(Unwrap(SnapFocusedWorkspace(p)).id)
             ELSE /\ SnapHiddenWorkspace(p) # None
                  /\ r.reference = Some(Unwrap(SnapHiddenWorkspace(p)).id)

C20_RequestsTargetTheSnapshot ==
    /\ Mutating(Me) # <<>> => command[Me] \in IpcCommands /\ HasSnapshot(Me)
    /\ \A i \in 1..Len(Issued(Me)) : TargetsSnapshot(Me, Issued(Me)[i])

\* A hide on a snapshot of two windows, with the hidden flag on both
\* workspaces, moved the focused window to the first of them.
C20_Witness ==
    /\ Ended(Me, "hide")
    /\ Len(snap_windows[Me]) = 2
    /\ Len(Issued(Me)) = 1
    /\ Issued(Me)[1].req = "MoveWindowToWorkspace"
    /\ ~Issued(Me)[1].focus
    /\ \A i \in 1..Len(snap_workspaces[Me]) : snap_workspaces[Me][i].is_hidden

=============================================================================
